---- MODULE Spec2Model ----
(***************************************************************************)
(* Persona Crawler API (src/main.py): the POST /crawl endpoint, its API-key *)
(* dependency, the breadth-first crawl loop of run_crawl and the scoring    *)
(* helpers.  Strings are TLA+ strings (sequences of characters): Len,       *)
(* SubSeq and \o act on them as Python's len, slicing and +.                *)
(***************************************************************************)
EXTENDS Integers, Sequences, FiniteSets, TLC

(***************************************************************************)
(* Bounds of the model.                                                     *)
(***************************************************************************)
\* max_pages of a request ranges over -1 .. MaxPagesBound
MaxPagesBound == 3
\* a fetched page carries at most MaxLinks anchors
MaxLinks == 2
\* at most MaxDown of the site's URLs fail on every fetch (stable outcomes)
MaxDown == 1
\* the scorer is tried on every text over {a, b} of at most MaxTextLen characters
MaxTextLen == 3
\* and on every profile whose word lists hold at most MaxWords words
MaxWords == 2
\* the hit counts diagnose is tried on run from 0 to MaxHits
MaxHits == 2
\* the issue lists the suggestions are built from have at most MaxIssues entries
MaxIssues == 3
\* the documents clean_text is tried on are made of at most MaxPieces pieces
MaxPieces == 3
\* max_pages of the crawl of the deeper site
DeepPages == 4
\* the page texts the personas are scored on are made of at most MaxTextWords words
MaxTextWords == 2

(***************************************************************************)
(* Python string helpers.                                                   *)
(***************************************************************************)
Max(a, b) == IF a >= b THEN a ELSE b

Min(a, b) == IF a <= b THEN a ELSE b

\* s[i-1:i-1+len(w)] == w  (1-based i)
MatchAt(s, w, i) == i + Len(w) - 1 <= Len(s) /\ SubSeq(s, i, i + Len(w) - 1) = w

\* s.startswith(w)
StartsWith(s, w) == MatchAt(s, w, 1)

\* s.endswith(w)
EndsWith(s, w) == Len(w) <= Len(s) /\ SubSeq(s, Len(s) - Len(w) + 1, Len(s)) = w

\* s[i-1:]
From(s, i) == SubSeq(s, i, Len(s))

RECURSIVE CountFrom(_, _, _)
CountFrom(s, w, i) ==
    IF i + Len(w) - 1 > Len(s) THEN 0
    ELSE IF MatchAt(s, w, i) THEN 1 + CountFrom(s, w, i + Len(w))
    ELSE CountFrom(s, w, i + 1)

\* s.count(w): non-overlapping occurrences, scanned left to right
StrCount(s, w) == IF w = "" THEN Len(s) + 1 ELSE CountFrom(s, w, 1)

RECURSIVE RemoveFrom(_, _, _)
RemoveFrom(s, w, i) ==
    IF i > Len(s) THEN ""
    ELSE IF MatchAt(s, w, i) THEN RemoveFrom(s, w, i + Len(w))
    ELSE SubSeq(s, i, i) \o RemoveFrom(s, w, i + 1)

\* s.replace(w, ""): every non-overlapping occurrence of w removed (w non-empty)
StrRemoveAll(s, w) == RemoveFrom(s, w, 1)

RECURSIVE FindFrom(_, _, _)
\* least index >= i of a character of s that is in chars, Len(s)+1 when none
FindFrom(s, chars, i) ==
    IF i > Len(s) THEN Len(s) + 1
    ELSE IF SubSeq(s, i, i) \in chars THEN i
    ELSE FindFrom(s, chars, i + 1)

(***************************************************************************)
(* urllib.parse as run_crawl uses it.                                       *)
(***************************************************************************)
\* urlsplit's scheme: the text before the first ":" when no "/" precedes it
UrlScheme(url) ==
    LET i == FindFrom(url, {":", "/", "?", "#"}, 1)
    IN  IF i > 1 /\ i <= Len(url) /\ SubSeq(url, i, i) = ":" THEN SubSeq(url, 1, i - 1) ELSE ""

\* what follows "scheme:"
UrlRest(url) == IF UrlScheme(url) = "" THEN url ELSE From(url, Len(UrlScheme(url)) + 2)

\* urlparse(url).netloc: between a leading "//" and the next "/", "?" or "#"
UrlNetloc(url) ==
    LET rest == UrlRest(url)
    IN  IF StartsWith(rest, "//")
        THEN SubSeq(rest, 3, FindFrom(rest, {"/", "?", "#"}, 3) - 1)
        ELSE ""

\* the part of the URL after the netloc
UrlPath(url) ==
    LET rest == UrlRest(url)
    IN  IF StartsWith(rest, "//") THEN From(rest, FindFrom(rest, {"/", "?", "#"}, 3)) ELSE rest

RECURSIVE LastSlash(_, _)
LastSlash(s, i) == IF i = 0 THEN 0 ELSE IF SubSeq(s, i, i) = "/" THEN i ELSE LastSlash(s, i - 1)

\* urljoin(base, href) for hrefs without dot segments, query or fragment
UrlJoin(base, href) ==
    IF href = "" THEN base
    ELSE IF UrlScheme(href) # "" /\ UrlScheme(href) # UrlScheme(base) THEN href
    ELSE IF UrlScheme(href) \notin {"", "http", "https"} THEN href
    ELSE IF UrlNetloc(href) # "" THEN UrlScheme(base) \o ":" \o UrlRest(href)
    ELSE IF StartsWith(UrlPath(href), "/")
         THEN UrlScheme(base) \o "://" \o UrlNetloc(base) \o UrlPath(href)
    ELSE UrlScheme(base) \o "://" \o UrlNetloc(base)
         \o SubSeq(UrlPath(base), 1, LastSlash(UrlPath(base), Len(UrlPath(base))))
         \o UrlPath(href)

\* urlparse(url).netloc.replace("www.", "")
LinkDomain(url) == StrRemoveAll(UrlNetloc(url), "www.")

(***************************************************************************)
(* Configuration: the API-key allow-list.                                   *)
(***************************************************************************)
RECURSIVE SplitComma(_)
\* s.split(",")
SplitComma(s) ==
    LET i == FindFrom(s, {","}, 1)
    IN  IF i > Len(s) THEN <<s>> ELSE <<SubSeq(s, 1, i - 1)>> \o SplitComma(From(s, i + 1))

RECURSIVE Strip(_)
\* s.strip() for blanks
Strip(s) ==
    IF s = "" THEN ""
    ELSE IF StartsWith(s, " ") THEN Strip(From(s, 2))
    ELSE IF EndsWith(s, " ") THEN Strip(SubSeq(s, 1, Len(s) - 1))
    ELSE s

\* set(k.strip() for k in env.split(",") if k.strip())
VALID_API_KEYS(env) ==
    LET parts == SplitComma(env)
    IN  {Strip(parts[i]) : i \in DOMAIN parts} \ {""}

\* values of the API_KEYS environment variable ("" when unset)
ApiKeysEnv == {"", "k1", " k1 , ,"}

\* the X-API-Key header of a request; a missing header reads as None, which like
\* "" is in no allow-list
NoKey == ""

KeyHeaders == {NoKey, "k1", "k2"}

(***************************************************************************)
(* The site being crawled, as the fetcher shows it.                         *)
(***************************************************************************)
StartUrls == {"http://www.ab.io/"}

\* href attributes a page of the site may carry
Hrefs == {"/a", "//ab.io/", "http://awww.b.io/", "http://o.io/", "mailto:m"}

\* every URL a crawl of the site can come to hold
SiteUrls ==
    {"http://www.ab.io/", "http://www.ab.io/a", "http://ab.io/", "http://ab.io/a",
     "http://awww.b.io/", "http://awww.b.io/a", "http://o.io/", "http://o.io/a", "mailto:m"}

\* requests.get can only succeed on http(s) URLs (others raise InvalidSchema)
Fetchable(url) == UrlScheme(url) \in {"http", "https"}

\* the operators above on the URLs of the site, each evaluated once
FetchableOf == [u \in SiteUrls |-> Fetchable(u)]

\* the hrefs of a site whose pages link back to a page of the start host
DeepHrefs == {"/a", "//ab.io/", "//www.ab.io/a"}

UrlJoinOf == [u \in SiteUrls, h \in Hrefs \cup DeepHrefs |-> UrlJoin(u, h)]

LinkDomainOf == [u \in SiteUrls |-> LinkDomain(u)]

SeqUpTo(S, n) == UNION {[1..k -> S] : k \in 0..n}

\* what clean_text gives for the documents of the site
PageTexts == {"fast delivery today, guaranteed. reviews"}

\* the documents over a set of hrefs: their anchors (a href=...), in document order,
\* and their text as clean_text gives it
Htmls(pool) == [hrefs : SeqUpTo(pool, MaxLinks), text : PageTexts]

Requests == {"r1", "r2"}

VARIABLES
    validKeys,   \* VALID_API_KEYS
    anchors,     \* the hrefs that occur on the pages of the site
    stable,      \* TRUE: each URL's fetch outcome is the same at every fetch
    down,        \* when stable: the fetchable URLs whose fetch fails
    pending,     \* requests that have not arrived yet
    pc,          \* per request: idle, auth, rejected, crawl, done
    apiKey,      \* per request: the X-API-Key header
    startUrl,    \* per request: req.url
    maxPages,    \* per request: req.max_pages
    baseDomain,  \* run_crawl's base_domain
    queue,       \* run_crawl's queue
    visited,     \* run_crawl's visited
    pages,       \* run_crawl's pages
    log,         \* history: the fetches of the request, in order, with their outcome
    phase,       \* the scorer on its own: off, input, scored
    text,        \* the normalized text handed to score_persona
    profile,     \* the persona handed to score_persona
    scored,      \* what score_persona returned
    call,        \* a function of the module called on its own: its name and arguments
    ret          \* what the call returned

vars == <<validKeys, anchors, stable, down, pending, pc, apiKey, startUrl, maxPages,
          baseDomain, queue, visited, pages, log, phase, text, profile, scored, call, ret>>

scoring == <<phase, text, profile, scored, call, ret>>

world == <<validKeys, anchors, stable, down>>

request == <<apiKey, startUrl, maxPages>>

locals == <<baseDomain, queue, visited, pages>>

(***************************************************************************)
(* Personas and scoring.                                                    *)
(***************************************************************************)
PERSONAS ==
    [Fixer |->
        [positive |-> <<"fast", "instant", "today", "solve", "fix", "guarantee">>,
         negative |-> <<"maybe", "eventually", "could">>,
         proof |-> <<"guarantee", "delivery", "today">>],
     Skeptic |->
        [positive |-> <<"reviews", "trusted", "refund", "returns", "policy">>,
         negative |-> <<"miracle", "hype">>,
         proof |-> <<"reviews", "refund", "returns">>],
     Optimizer |->
        [positive |-> <<"results", "performance", "optimize", "data", "compare">>,
         negative |-> <<"generic">>,
         proof |-> <<"data", "study", "results">>],
     Explorer |->
        [positive |-> <<"discover", "story", "learn", "why">>,
         negative |-> <<>>,
         proof |-> <<"community", "story">>],
     DealMax |->
        [positive |-> <<"save", "deal", "bundle", "discount", "off">>,
         negative |-> <<>>,
         proof |-> <<"save", "deal", "bundle">>]]

RECOMMENDATIONS ==
    [Fixer |->
        [overall_low |-> "Add a clear above-the-fold headline stating the problem you solve immediately.",
         missing_proof |-> "Add delivery time or a guarantee near the primary CTA.",
         weak_language |-> "Use urgency language like 'Get it today' or 'Fast results'.",
         conflicting_language |-> "Remove uncertain language like 'may help' or 'eventually'."],
     Skeptic |->
        [overall_low |-> "Increase visible trust signals above the fold.",
         missing_proof |-> "Move reviews, return policy, or trust badges closer to the CTA.",
         weak_language |-> "Add reassurance copy such as 'verified buyers' or 'risk-free'.",
         conflicting_language |-> "Remove exaggerated or hype-driven claims."],
     Optimizer |->
        [overall_low |-> "Clarify how this product performs better than alternatives.",
         missing_proof |-> "Add comparison tables or data-backed claims.",
         weak_language |-> "Use outcome-driven language like 'improves performance'.",
         conflicting_language |-> "Reduce generic marketing language."],
     Explorer |->
        [overall_low |-> "Add storytelling or brand narrative elements.",
         missing_proof |-> "Include lifestyle imagery or community usage examples.",
         weak_language |-> "Use curiosity-driven language like 'discover why'."],
     DealMax |->
        [overall_low |-> "Introduce visible savings such as bundles or discounts.",
         missing_proof |-> "Show price comparisons or savings badges.",
         weak_language |-> "Use deal language like 'Save more' or 'Limited-time offer'."]]

RECURSIVE count_hits(_, _)
\* sum(text.count(w) for w in words)
count_hits(txt, words) ==
    IF words = <<>> THEN 0 ELSE StrCount(txt, Head(words)) + count_hits(txt, Tail(words))

\* mutant: the score is capped at 100 but not raised to 0
score_persona_no_floor(txt, persona) ==
    LET pos == count_hits(txt, persona.positive)
        neg == count_hits(txt, persona.negative)
        proof == count_hits(txt, persona.proof)
        raw_score == (pos * 3) + (proof * 5) - (neg * 4)
    IN  [score |-> Min(100, raw_score),
         positive_hits |-> pos, negative_hits |-> neg, proof_hits |-> proof]

\* mutant: a proof word that is also a positive word is counted as positive only
score_persona_exclusive(txt, persona) ==
    LET pos == count_hits(txt, persona.positive)
        neg == count_hits(txt, persona.negative)
        proof == count_hits(txt, SelectSeq(persona.proof,
                    LAMBDA w : \A i \in DOMAIN persona.positive : persona.positive[i] # w))
        raw_score == (pos * 3) + (proof * 5) - (neg * 4)
        score == Max(0, Min(100, raw_score))
    IN  [score |-> score,
         positive_hits |-> pos, negative_hits |-> neg, proof_hits |-> proof]

score_persona(txt, persona) ==
    LET pos == count_hits(txt, persona.positive)
        neg == count_hits(txt, persona.negative)
        proof == count_hits(txt, persona.proof)
        raw_score == (pos * 3) + (proof * 5) - (neg * 4)
        score == Max(0, Min(100, raw_score))
    IN  [score |-> score,
         positive_hits |-> pos, negative_hits |-> neg, proof_hits |-> proof]

\* mutant: the four tests chained with elif, so that the first one that holds ends them
diagnose_elif(score, pos, neg, proof) ==
    IF score < 50 THEN <<"overall_low">>
    ELSE IF proof = 0 THEN <<"missing_proof">>
    ELSE IF pos < 2 THEN <<"weak_language">>
    ELSE IF neg > 0 THEN <<"conflicting_language">>
    ELSE <<>>

\* mutant: the negative test is neg >= 0
diagnose_neg_nonneg(score, pos, neg, proof) ==
    (IF score < 50 THEN <<"overall_low">> ELSE <<>>)
    \o (IF proof = 0 THEN <<"missing_proof">> ELSE <<>>)
    \o (IF pos < 2 THEN <<"weak_language">> ELSE <<>>)
    \o (IF neg >= 0 THEN <<"conflicting_language">> ELSE <<>>)

diagnose(score, pos, neg, proof) ==
    (IF score < 50 THEN <<"overall_low">> ELSE <<>>)
    \o (IF proof = 0 THEN <<"missing_proof">> ELSE <<>>)
    \o (IF pos < 2 THEN <<"weak_language">> ELSE <<>>)
    \o (IF neg > 0 THEN <<"conflicting_language">> ELSE <<>>)

priority(score) == IF score < 40 THEN "HIGH" ELSE IF score < 60 THEN "MEDIUM" ELSE "LOW"

\* mutant: the table is read with a default ("") instead of being tested for the issue
Suggestions_get_default(pname, issues) ==
    IF pname \in DOMAIN RECOMMENDATIONS
    THEN [i \in DOMAIN issues |->
            IF issues[i] \in DOMAIN RECOMMENDATIONS[pname]
            THEN RECOMMENDATIONS[pname][issues[i]] ELSE ""]
    ELSE <<>>

\* the suggestions list built at lines 198-202
Suggestions(pname, issues) ==
    IF pname \in DOMAIN RECOMMENDATIONS
    THEN LET found == SelectSeq(issues, LAMBDA issue : issue \in DOMAIN RECOMMENDATIONS[pname])
         IN  [i \in DOMAIN found |-> RECOMMENDATIONS[pname][found[i]]]
    ELSE <<>>

\* page_info["personas"][pname] for a page of text txt
PersonaResult(pname, txt) ==
    LET s == score_persona(txt, PERSONAS[pname])
        issues == diagnose(s.score, s.positive_hits, s.negative_hits, s.proof_hits)
    IN  [score |-> s.score, priority |-> priority(s.score), issues |-> issues,
         suggestions |-> Suggestions(pname, issues)]

RECURSIVE StringsUpTo(_)
\* the strings over {a, b} of at most n characters
StringsUpTo(n) ==
    IF n = 0 THEN {""}
    ELSE LET S == StringsUpTo(n - 1) IN S \cup {t \o c : t \in S, c \in {"a", "b"}}

\* texts the scorer is tried on: the short ones, and texts with many keywords
ScoreTexts ==
    StringsUpTo(MaxTextLen) \cup
    {"aaaaaaaaaaaaaaaa", "fixer fixer", "maybe it could eventually",
     "reviews refund", "today today today today today today today today today today today today today "}

\* words of the profiles the scorer is tried on
ScoreWords == {"a", "aa"}

\* the profiles: every choice of three short word lists, and the configured personas
ScoreProfiles ==
    [positive : SeqUpTo(ScoreWords, MaxWords), negative : SeqUpTo(ScoreWords, MaxWords),
     proof : SeqUpTo(ScoreWords, MaxWords)]
    \cup {PERSONAS[p] : p \in DOMAIN PERSONAS}

NoScore == [score |-> 0, positive_hits |-> 0, negative_hits |-> 0, proof_hits |-> 0]

NoProfile == [positive |-> <<>>, negative |-> <<>>, proof |-> <<>>]

(***************************************************************************)
(* Page classification.                                                     *)
(***************************************************************************)
\* mutant: the keyword tests come before the homepage test
detect_page_type_keywords_first(url) ==
    IF StrCount(url, "product") > 0 THEN "Product Page"
    ELSE IF StrCount(url, "collection") > 0 \/ StrCount(url, "category") > 0
         THEN "Collection Page"
    ELSE IF EndsWith(url, "/") \/ StrCount(url, "/") <= 3 THEN "Homepage / Landing"
    ELSE "Other"

detect_page_type(url) ==
    IF EndsWith(url, "/") \/ StrCount(url, "/") <= 3 THEN "Homepage / Landing"
    ELSE IF StrCount(url, "product") > 0 THEN "Product Page"
    ELSE IF StrCount(url, "collection") > 0 \/ StrCount(url, "category") > 0
         THEN "Collection Page"
    ELSE "Other"

PageTypeOf == [u \in SiteUrls |-> detect_page_type(u)]

PersonasOf == [txt \in PageTexts |-> [pname \in DOMAIN PERSONAS |-> PersonaResult(pname, txt)]]

\* the page_info dict of run_crawl
PageInfo(url, html) ==
    [url |-> url, page_type |-> PageTypeOf[url], personas |-> PersonasOf[html.text]]

(***************************************************************************)
(* The endpoint and its dependency.                                         *)
(***************************************************************************)
InitWorld ==
    /\ validKeys \in {VALID_API_KEYS(env) : env \in ApiKeysEnv}
    /\ stable \in BOOLEAN
    /\ down \in {d \in SUBSET {u \in SiteUrls : Fetchable(u)} : Cardinality(d) <= MaxDown}
    /\ ~stable => down = {}

NoCall == [fn |-> "none"]

InitScoringOff ==
    /\ phase = "off" /\ text = "" /\ profile = NoProfile /\ scored = NoScore
    /\ call = NoCall /\ ret = <<>>

InitRequests ==
    /\ pc = [r \in Requests |-> "idle"]
    /\ apiKey = [r \in Requests |-> NoKey]
    /\ startUrl = [r \in Requests |-> ""]
    /\ maxPages = [r \in Requests |-> 0]
    /\ baseDomain = [r \in Requests |-> ""]
    /\ queue = [r \in Requests |-> <<>>]
    /\ visited = [r \in Requests |-> {}]
    /\ pages = [r \in Requests |-> <<>>]
    /\ log = [r \in Requests |-> <<>>]

\* the service has started; one request will arrive, to a site that uses every href
Init == InitWorld /\ InitRequests /\ InitScoringOff /\ anchors = Hrefs /\ pending = {"r1"}

\* two requests will arrive and may be served at once (FastAPI runs the endpoint,
\* a plain def, on a thread pool), both with a valid key, to a site whose only
\* anchor is /a
InitConc ==
    /\ InitWorld /\ validKeys # {}
    /\ InitRequests /\ InitScoringOff
    /\ anchors = {"/a"}
    /\ pending = Requests

\* a POST /crawl request arrives
Submit(r) ==
    /\ r \in pending
    /\ pc[r] = "idle"
    /\ \E key \in KeyHeaders, url \in StartUrls, mp \in -1..MaxPagesBound :
          /\ apiKey' = [apiKey EXCEPT ![r] = key]
          /\ startUrl' = [startUrl EXCEPT ![r] = url]
          /\ maxPages' = [maxPages EXCEPT ![r] = mp]
    /\ pending' = pending \ {r}
    /\ pc' = [pc EXCEPT ![r] = "auth"]
    /\ UNCHANGED <<world, scoring, locals, log>>

\* mutant: an empty allow-list switches authentication off
get_api_key_open(api_key) == validKeys = {} \/ api_key \in validKeys

\* get_api_key returns (TRUE) or raises 403 (FALSE)
get_api_key(api_key) == api_key \in validKeys

\* the dependency raises HTTPException(403): crawl_site is not called
Reject(r) ==
    /\ pc[r] = "auth"
    /\ ~get_api_key(apiKey[r])
    /\ pc' = [pc EXCEPT ![r] = "rejected"]
    /\ UNCHANGED <<world, scoring, pending, request, locals, log>>

\* crawl_site calls run_crawl(req.url, req.max_pages): lines 166-171
EnterCrawl(r) ==
    /\ pc[r] = "auth"
    /\ get_api_key(apiKey[r])
    /\ pc' = [pc EXCEPT ![r] = "crawl"]
    /\ baseDomain' = [baseDomain EXCEPT ![r] = LinkDomainOf[startUrl[r]]]
    /\ visited' = [visited EXCEPT ![r] = {}]
    /\ queue' = [queue EXCEPT ![r] = <<startUrl[r]>>]
    /\ pages' = [pages EXCEPT ![r] = <<>>]
    /\ UNCHANGED <<world, scoring, pending, request, log>>

(***************************************************************************)
(* run_crawl's loop, one action per way through an iteration.               *)
(***************************************************************************)
\* mutant: the budget test off by one
LoopCondOffByOne(r) == queue[r] # <<>> /\ Cardinality(visited[r]) <= maxPages[r]

\* while queue and len(visited) < max_pages
LoopCond(r) == queue[r] # <<>> /\ Cardinality(visited[r]) < maxPages[r]

\* the fetch may fail: an exception, a timeout or a status other than 200
MayFail(url) == ~FetchableOf[url] \/ ~stable \/ url \in down

\* the fetch may answer 200
MayAnswer(url) == FetchableOf[url] /\ (~stable \/ url \notin down)

\* mutant: the visited URL is looked at but not taken off the queue
SkipVisitedNoPop(r) ==
    /\ pc[r] = "crawl"
    /\ queue[r] # <<>> /\ Cardinality(visited[r]) < maxPages[r]
    /\ Head(queue[r]) \in visited[r]
    /\ UNCHANGED vars

\* mutant: break instead of continue, so that the loop ends at a visited URL
SkipVisitedBreaks(r) ==
    /\ pc[r] = "crawl"
    /\ LoopCond(r)
    /\ Head(queue[r]) \in visited[r]
    /\ queue' = [queue EXCEPT ![r] = <<>>]
    /\ UNCHANGED <<world, scoring, pending, pc, request, baseDomain, visited, pages, log>>

\* if url in visited: continue
SkipVisited(r) ==
    /\ pc[r] = "crawl"
    /\ LoopCond(r)
    /\ Head(queue[r]) \in visited[r]
    /\ queue' = [queue EXCEPT ![r] = Tail(queue[r])]
    /\ UNCHANGED <<world, scoring, pending, pc, request, baseDomain, visited, pages, log>>

\* mutant: the fetch error is not caught and ends the request
FetchFailRaises(r) ==
    /\ pc[r] = "crawl"
    /\ queue[r] # <<>> /\ Cardinality(visited[r]) < maxPages[r]
    /\ Head(queue[r]) \notin visited[r]
    /\ queue' = [queue EXCEPT ![r] = Tail(queue[r])]
    /\ log' = [log EXCEPT ![r] = Append(log[r], [url |-> Head(queue[r]), ok |-> FALSE, hrefs |-> <<>>, text |-> ""])]
    /\ pc' = [pc EXCEPT ![r] = "error"]
    /\ UNCHANGED <<world, scoring, pending, request, baseDomain, visited, pages>>

\* except Exception: continue / status_code != 200: continue
FetchFail(r) ==
    /\ pc[r] = "crawl"
    /\ LoopCond(r)
    /\ Head(queue[r]) \notin visited[r]
    /\ MayFail(Head(queue[r]))
    /\ queue' = [queue EXCEPT ![r] = Tail(queue[r])]
    /\ log' = [log EXCEPT ![r] = Append(log[r], [url |-> Head(queue[r]), ok |-> FALSE, hrefs |-> <<>>, text |-> ""])]
    /\ UNCHANGED <<world, scoring, pending, pc, request, baseDomain, visited, pages>>

\* the links of the page at url, each resolved with urljoin
Links(url, html) == [i \in DOMAIN html.hrefs |-> UrlJoinOf[url, html.hrefs[i]]]

\* mutant: the link is appended whether visited or not
Enqueued_unconditional(link, base, vis) ==
    LinkDomainOf[link] = "" \/ LinkDomainOf[link] = base

\* if link_domain == "" or link_domain == base_domain: if link not in visited
Enqueued(link, base, vis) ==
    /\ LinkDomainOf[link] = "" \/ LinkDomainOf[link] = base
    /\ link \notin vis

\* mutant: visited is one set shared by all calls of run_crawl
FetchOkSharedVisited(r) ==
    /\ pc[r] = "crawl"
    /\ LoopCond(r)
    /\ Head(queue[r]) \notin visited[r]
    /\ MayAnswer(Head(queue[r]))
    /\ \E html \in Htmls(anchors) :
          LET url == Head(queue[r])
              vis == visited[r] \cup {url}
          IN  /\ visited' = [q \in Requests |-> visited[q] \cup {url}]
              /\ pages' = [pages EXCEPT ![r] = Append(pages[r], PageInfo(url, html))]
              /\ queue' = [queue EXCEPT ![r] =
                    Tail(queue[r]) \o
                    SelectSeq(Links(url, html), LAMBDA l : Enqueued(l, baseDomain[r], vis))]
              /\ log' = [log EXCEPT ![r] = Append(log[r], [url |-> url, ok |-> TRUE, hrefs |-> html.hrefs, text |-> html.text])]
    /\ UNCHANGED <<world, scoring, pending, pc, request, baseDomain>>

\* mutant: the dequeued URL is fetched without the visited test
FetchOkNoVisitedTest(r) ==
    /\ pc[r] = "crawl"
    /\ LoopCond(r)
    /\ MayAnswer(Head(queue[r]))
    /\ \E html \in Htmls(anchors) :
          LET url == Head(queue[r])
              vis == visited[r] \cup {url}
          IN  /\ visited' = [visited EXCEPT ![r] = vis]
              /\ pages' = [pages EXCEPT ![r] = Append(pages[r], PageInfo(url, html))]
              /\ queue' = [queue EXCEPT ![r] =
                    Tail(queue[r]) \o
                    SelectSeq(Links(url, html), LAMBDA l : Enqueued(l, baseDomain[r], vis))]
              /\ log' = [log EXCEPT ![r] = Append(log[r], [url |-> url, ok |-> TRUE, hrefs |-> html.hrefs, text |-> html.text])]
    /\ UNCHANGED <<world, scoring, pending, pc, request, baseDomain>>

\* a successful fetch: lines 185-222
FetchOk(r) ==
    /\ pc[r] = "crawl"
    /\ LoopCond(r)
    /\ Head(queue[r]) \notin visited[r]
    /\ MayAnswer(Head(queue[r]))
    /\ \E html \in Htmls(anchors) :
          LET url == Head(queue[r])
              vis == visited[r] \cup {url}
          IN  /\ visited' = [visited EXCEPT ![r] = vis]
              /\ pages' = [pages EXCEPT ![r] = Append(pages[r], PageInfo(url, html))]
              /\ queue' = [queue EXCEPT ![r] =
                    Tail(queue[r]) \o
                    SelectSeq(Links(url, html), LAMBDA l : Enqueued(l, baseDomain[r], vis))]
              /\ log' = [log EXCEPT ![r] = Append(log[r], [url |-> url, ok |-> TRUE, hrefs |-> html.hrefs, text |-> html.text])]
    /\ UNCHANGED <<world, scoring, pending, pc, request, baseDomain>>

\* the loop ends: return pages, and crawl_site answers with them
Return(r) ==
    /\ pc[r] = "crawl"
    /\ ~LoopCond(r)
    /\ pc' = [pc EXCEPT ![r] = "done"]
    /\ UNCHANGED <<world, scoring, pending, request, locals, log>>

Next ==
    \E r \in Requests :
        \/ Submit(r)
        \/ Reject(r)
        \/ EnterCrawl(r)
        \/ SkipVisited(r)
        \/ FetchFail(r)
        \/ FetchOk(r)
        \/ Return(r)

Spec == Init /\ [][Next]_vars

\* one step of run_crawl for the request
CrawlStep(r) == SkipVisited(r) \/ FetchFail(r) \/ FetchOk(r) \/ Return(r)

SpecConc == InitConc /\ [][Next]_vars

(***************************************************************************)
(* A crawl of a deeper site: run_crawl has been entered with max_pages =    *)
(* DeepPages, on a site whose fetches may fail at one time and succeed at   *)
(* another.                                                                 *)
(***************************************************************************)
InitDeep ==
    /\ validKeys = {"k1"} /\ anchors = DeepHrefs /\ stable = FALSE /\ down = {}
    /\ InitScoringOff
    /\ pending = {}
    /\ \E url \in StartUrls :
          /\ pc = [r \in Requests |-> IF r = "r1" THEN "crawl" ELSE "idle"]
          /\ apiKey = [r \in Requests |-> IF r = "r1" THEN "k1" ELSE NoKey]
          /\ startUrl = [r \in Requests |-> IF r = "r1" THEN url ELSE ""]
          /\ maxPages = [r \in Requests |-> IF r = "r1" THEN DeepPages ELSE 0]
          /\ baseDomain = [r \in Requests |-> IF r = "r1" THEN LinkDomainOf[url] ELSE ""]
          /\ queue = [r \in Requests |-> IF r = "r1" THEN <<url>> ELSE <<>>]
    /\ visited = [r \in Requests |-> {}]
    /\ pages = [r \in Requests |-> <<>>]
    /\ log = [r \in Requests |-> <<>>]

NextDeep == CrawlStep("r1")

SpecDeep == InitDeep /\ [][NextDeep]_vars

(***************************************************************************)
(* The scorer on its own: a text and a profile are given, and scored.       *)
(***************************************************************************)
InitScore ==
    /\ validKeys = {} /\ anchors = {} /\ stable = TRUE /\ down = {}
    /\ InitRequests /\ pending = {}
    /\ phase = "input"
    /\ text \in ScoreTexts
    /\ profile \in ScoreProfiles
    /\ scored = NoScore
    /\ call = NoCall /\ ret = <<>>

ScorePersona ==
    /\ phase = "input"
    /\ scored' = score_persona(text, profile)
    /\ phase' = "scored"
    /\ UNCHANGED <<world, pending, pc, request, locals, log, text, profile, call, ret>>

NextScore == ScorePersona

SpecScore == InitScore /\ [][NextScore]_vars

(***************************************************************************)
(* clean_text: BeautifulSoup(html, "html.parser"), script, style and        *)
(* noscript elements decomposed, get_text(separator=" "), runs of           *)
(* whitespace replaced by one space, lower().                               *)
(***************************************************************************)
CharAt(s, i) == SubSeq(s, i, i)

Letters == {"a", "b", "c", "i", "p", "r", "s", "t", "B"}

\* the first place of w in s at or after i, 0 if there is none
RECURSIVE Find(_, _, _)
Find(s, w, i) ==
    IF i + Len(w) - 1 > Len(s) THEN 0 ELSE IF MatchAt(s, w, i) THEN i ELSE Find(s, w, i + 1)

\* html.parser: a tag opens at < when a letter or / follows and a > closes it; any
\* other < is text
TagAt(s, i) ==
    /\ CharAt(s, i) = "<"
    /\ i < Len(s)
    /\ CharAt(s, i + 1) \in Letters \cup {"/"}
    /\ Find(s, ">", i + 1) > 0

\* the character references of the documents and what they stand for
Entities == [amp |-> "&", lt |-> "<", gt |-> ">"]

EntityAt(s, i) ==
    {e \in DOMAIN Entities : MatchAt(s, "&" \o e \o ";", i)}

\* the elements clean_text decomposes
Decomposed == {"script", "style", "noscript"}

\* the text nodes of the soup from place i on, in document order, cur being the
\* text gathered since the last tag; the content of a decomposed element is dropped
RECURSIVE TextNodes(_, _, _)
TextNodes(s, i, cur) ==
    LET done == IF cur = "" THEN <<>> ELSE <<cur>>
    IN  IF i > Len(s) THEN done
        ELSE IF TagAt(s, i)
        THEN LET close == Find(s, ">", i + 1)
                 name == SubSeq(s, i + 1, close - 1)
                 ends == Find(s, "</" \o name \o ">", close + 1)
                 next == IF name \notin Decomposed THEN close + 1
                         ELSE IF ends = 0 THEN Len(s) + 1
                         ELSE ends + Len(name) + 3
             IN  done \o TextNodes(s, next, "")
        ELSE IF EntityAt(s, i) # {}
        THEN LET e == CHOOSE x \in EntityAt(s, i) : TRUE
             IN  TextNodes(s, i + Len(e) + 2, cur \o Entities[e])
        ELSE TextNodes(s, i + 1, cur \o CharAt(s, i))

\* soup.get_text(separator=" ")
RECURSIVE JoinNodes(_)
JoinNodes(nodes) ==
    IF nodes = <<>> THEN ""
    ELSE IF Len(nodes) = 1 THEN nodes[1]
    ELSE nodes[1] \o " " \o JoinNodes(Tail(nodes))

Whitespace == {" ", "\n", "\t"}

\* re.sub(r"\s+", " ", text)
RECURSIVE CollapseFrom(_, _)
CollapseFrom(s, i) ==
    IF i > Len(s) THEN ""
    ELSE IF CharAt(s, i) \notin Whitespace THEN CharAt(s, i) \o CollapseFrom(s, i + 1)
    ELSE IF i > 1 /\ CharAt(s, i - 1) \in Whitespace THEN CollapseFrom(s, i + 1)
    ELSE " " \o CollapseFrom(s, i + 1)

\* str.lower() on the letters of the documents
LowerChar(c) == IF c = "B" THEN "b" ELSE c

RECURSIVE Lower(_)
Lower(s) == IF s = "" THEN "" ELSE LowerChar(CharAt(s, 1)) \o Lower(From(s, 2))

clean_text(html) == Lower(CollapseFrom(JoinNodes(TextNodes(html, 1, "")), 1))

(***************************************************************************)
(* The functions of the module called on their own: a call is given, and    *)
(* returns.                                                                 *)
(***************************************************************************)
\* the scores score_persona can give
DiagScores == 0..100

DiagnoseCalls ==
    [fn : {"diagnose"}, score : DiagScores, pos : 0..MaxHits, neg : 0..MaxHits, proof : 0..MaxHits]

\* the issues diagnose can give, and one that no table knows
IssueNames == {"overall_low", "missing_proof", "weak_language", "conflicting_language"}

SuggestionsCalls ==
    [fn : {"suggestions"}, pname : DOMAIN PERSONAS \cup {"Nobody"},
     issues : SeqUpTo(IssueNames \cup {"no_such_issue"}, MaxIssues)]

\* the URLs detect_page_type is tried on: with and without scheme and host, every
\* mix of the keywords, with and without a final slash
TypeBases == {"https://shop.example.com", "shop.example.com", "//a.io", ""}

TypePaths ==
    {"", "/", "/products/widget", "/about/team/history", "/product", "/x/product",
     "/x/collection", "/x/category", "/x/product-collection", "/x/category-product",
     "/x/collections/", "/x/products/", "/x/y", "/x/Product", "/collection/product/y"}

TypeUrls == {b \o q : b \in TypeBases, q \in TypePaths}

DetectCalls == [fn : {"detect_page_type"}, url : TypeUrls]

\* the documents clean_text is tried on: text in both cases, whitespace, tags, a
\* script element, and markup written with character references
Pieces ==
    {"a", "B", " ", "\n", "<b>", "</b>", "<script>", "</script>", "&lt;b&gt;", "&amp;lt;"}

RECURSIVE DocsUpTo(_)
DocsUpTo(n) ==
    IF n = 0 THEN {""}
    ELSE LET D == DocsUpTo(n - 1) IN D \cup {d \o q : d \in D, q \in Pieces}

CleanCalls == [fn : {"clean_text"}, html : DocsUpTo(MaxPieces)]

\* the page texts the personas are scored on: words of the tables, of every list
\* kind, and a word of none
TextWords ==
    {"fast", "today", "guarantee", "maybe", "hype", "generic", "story", "save",
     "reviews", "data", "hello"}

RECURSIVE TextsUpTo(_)
TextsUpTo(n) ==
    IF n = 0 THEN {""}
    ELSE LET S == TextsUpTo(n - 1)
         IN  S \cup {IF t = "" THEN w ELSE t \o " " \o w : t \in S, w \in TextWords}

PersonaCalls == [fn : {"persona_result"}, pname : DOMAIN PERSONAS, text : TextsUpTo(MaxTextWords)]

InitCalls ==
    /\ validKeys = {} /\ anchors = {} /\ stable = TRUE /\ down = {}
    /\ InitRequests /\ pending = {}
    /\ phase = "call" /\ text = "" /\ profile = NoProfile /\ scored = NoScore
    /\ ret = <<>>
    /\ \/ call \in DiagnoseCalls
       \/ call \in SuggestionsCalls
       \/ call \in DetectCalls
       \/ call \in CleanCalls
       \/ call \in PersonaCalls

\* the call returns v
Returns(v) ==
    /\ ret' = v
    /\ phase' = "returned"
    /\ UNCHANGED <<world, pending, pc, request, locals, log, text, profile, scored, call>>

Diagnose ==
    /\ phase = "call" /\ call.fn = "diagnose"
    /\ Returns(diagnose(call.score, call.pos, call.neg, call.proof))

Suggest ==
    /\ phase = "call" /\ call.fn = "suggestions"
    /\ Returns(Suggestions(call.pname, call.issues))

DetectPageType ==
    /\ phase = "call" /\ call.fn = "detect_page_type"
    /\ Returns(detect_page_type(call.url))

CleanText ==
    /\ phase = "call" /\ call.fn = "clean_text"
    /\ Returns(clean_text(call.html))

\* one round of the loop over PERSONAS at lines 194-209
ScorePage ==
    /\ phase = "call" /\ call.fn = "persona_result"
    /\ Returns(PersonaResult(call.pname, call.text))

NextCalls ==
    \/ Diagnose
    \/ Suggest
    \/ DetectPageType
    \/ CleanText
    \/ ScorePage

SpecCalls == InitCalls /\ [][NextCalls]_vars

\* the thread that serves a request keeps running: every fetch ends within its
\* timeout, so an iteration that can be taken is taken
SpecLive == Spec /\ \A r \in Requests : WF_vars(CrawlStep(r))

TypeOK ==
    /\ \A r \in Requests :
          /\ \A i \in DOMAIN queue[r] : queue[r][i] \in SiteUrls
          /\ visited[r] \subseteq SiteUrls

(***************************************************************************)
(* Vocabulary of the properties.                                            *)
(***************************************************************************)
\* run_crawl has been entered for the request
InCrawl(r) == pc[r] \in {"crawl", "done"}

\* the URLs of a sequence of records with a url field
UrlsOf(recs) == [i \in DOMAIN recs |-> recs[i].url]

\* the fetches of the request that answered 200, in order
Fetched(r) == SelectSeq(log[r], LAMBDA e : e.ok)

\* a host with one leading "www." removed, and nothing else
StripLeadingWww(host) == IF StartsWith(host, "www.") THEN From(host, 5) ELSE host

\* same-domain as the specification states it
SameDomain(url, start) ==
    StripLeadingWww(UrlNetloc(url)) \in {"", StripLeadingWww(UrlNetloc(start))}

(***************************************************************************)
(* C1.  As claimed: in every state of run_crawl the visited set and the     *)
(* page list have at most max_pages elements.  This fails for a negative    *)
(* max_pages, where both are empty and 0 > max_pages.                       *)
(***************************************************************************)
C1_AtMostMaxPages ==
    \A r \in Requests :
        InCrawl(r) =>
            /\ Cardinality(visited[r]) <= maxPages[r]
            /\ Len(pages[r]) <= maxPages[r]

\* C1 as amended: the visited set and the page list never have more than
\* max(max_pages, 0) elements, and with max_pages <= 0 nothing is fetched and
\* the result is empty.
C1_Bounded ==
    \A r \in Requests :
        InCrawl(r) =>
            /\ Cardinality(visited[r]) <= Max(maxPages[r], 0)
            /\ Len(pages[r]) <= Max(maxPages[r], 0)
            /\ maxPages[r] <= 0 => log[r] = <<>> /\ pages[r] = <<>>

\* the budget stops a crawl whose frontier still holds URLs
C1_Witness ==
    \E r \in Requests :
        /\ pc[r] = "done"
        /\ maxPages[r] > 1
        /\ Len(pages[r]) = maxPages[r]
        /\ Cardinality(visited[r]) = maxPages[r]
        /\ queue[r] # <<>>

(***************************************************************************)
(* C2.  As claimed: within one crawl no URL is fetched twice, whether the   *)
(* fetch succeeds or fails.                                                 *)
(***************************************************************************)
C2_FetchedAtMostOnce ==
    \A r \in Requests :
        \A i, j \in DOMAIN log[r] : log[r][i].url = log[r][j].url => i = j

(***************************************************************************)
(* C3.  A failed fetch leaves visited and pages as they were, enqueues      *)
(* nothing and leaves the crawl running; when the fetch of the start URL    *)
(* fails the crawl ends with an empty page list.                            *)
(***************************************************************************)
C3_FailureStep(r) ==
    (Len(log'[r]) = Len(log[r]) + 1 /\ ~log'[r][Len(log'[r])].ok) =>
        /\ visited'[r] = visited[r]
        /\ pages'[r] = pages[r]
        /\ queue'[r] = Tail(queue[r])
        /\ pc'[r] = "crawl"

C3_StartFailed(r) ==
    (log[r] # <<>> /\ ~log[r][1].ok) =>
        /\ log[r] = <<[url |-> startUrl[r], ok |-> FALSE, hrefs |-> <<>>, text |-> ""]>>
        /\ pages[r] = <<>>
        /\ queue[r] = <<>>
        /\ pc[r] \in {"crawl", "done"}

C3_FetchFailureTolerated ==
    /\ [](\A r \in Requests : C3_StartFailed(r))
    /\ [][\A r \in Requests : C3_FailureStep(r)]_vars

\* the start URL failed and the crawl returned the empty list
C3_Witness ==
    \E r \in Requests :
        /\ pc[r] = "done"
        /\ log[r] = <<[url |-> startUrl[r], ok |-> FALSE, hrefs |-> <<>>, text |-> ""]>>
        /\ pages[r] = <<>>

(***************************************************************************)
(* C4.  Every crawl returns, and when it has returned the frontier is       *)
(* empty or len(visited) >= max_pages.                                      *)
(***************************************************************************)
C4_Terminates ==
    /\ \A r \in Requests : (pc[r] = "crawl") ~> (pc[r] = "done")
    /\ [](\A r \in Requests :
            pc[r] = "done" => queue[r] = <<>> \/ Cardinality(visited[r]) >= maxPages[r])

\* a crawl that returned after fetches that failed and fetches that answered
C4_Witness ==
    \E r \in Requests :
        /\ pc[r] = "done"
        /\ \E i \in DOMAIN log[r] : ~log[r][i].ok
        /\ Len(pages[r]) >= 2
        /\ queue[r] = <<>>
        /\ Cardinality(visited[r]) < maxPages[r]

(***************************************************************************)
(* C5.  The page list holds one PageResult per visited URL, none twice, in  *)
(* the order of the successful fetches, and an entry once appended stays    *)
(* as it is.                                                                *)
(***************************************************************************)
C5_OnePerVisited(r) ==
    InCrawl(r) =>
        /\ {pages[r][i].url : i \in DOMAIN pages[r]} = visited[r]
        /\ Len(pages[r]) = Cardinality(visited[r])
        /\ UrlsOf(pages[r]) = UrlsOf(Fetched(r))

C5_AppendOnly(r) ==
    InCrawl(r) =>
        /\ Len(pages'[r]) >= Len(pages[r])
        /\ SubSeq(pages'[r], 1, Len(pages[r])) = pages[r]

C5_PagesMatchVisited ==
    /\ [](\A r \in Requests : C5_OnePerVisited(r))
    /\ [][\A r \in Requests : C5_AppendOnly(r)]_vars

\* two pages, with a failed fetch between the two successful ones
C5_Witness ==
    \E r \in Requests :
        /\ Len(pages[r]) = 2
        /\ Len(log[r]) = 3
        /\ ~log[r][2].ok

(***************************************************************************)
(* C7.  As claimed: every URL the crawl enqueues or fetches, other than     *)
(* the start URL, has a host that with one leading "www." removed is empty  *)
(* or is the start URL's host with one leading "www." removed.              *)
(***************************************************************************)
C7_SameDomainOnly ==
    \A r \in Requests :
        /\ \A i \in DOMAIN queue[r] :
              queue[r][i] = startUrl[r] \/ SameDomain(queue[r][i], startUrl[r])
        /\ \A i \in DOMAIN log[r] :
              log[r][i].url = startUrl[r] \/ SameDomain(log[r][i].url, startUrl[r])

(***************************************************************************)
(* C8.  A request whose key is not in the allow-list never enters           *)
(* run_crawl: it fetches nothing and is rejected.                           *)
(***************************************************************************)
C8_RejectedBeforeCrawl ==
    \A r \in Requests :
        (pc[r] # "idle" /\ apiKey[r] \notin validKeys) =>
            /\ pc[r] \in {"auth", "rejected"}
            /\ log[r] = <<>>
            /\ queue[r] = <<>> /\ visited[r] = {} /\ pages[r] = <<>>

\* a key was presented while the allow-list is empty, and the request is rejected
C8_Witness ==
    \E r \in Requests :
        /\ pc[r] = "rejected"
        /\ validKeys = {}
        /\ apiKey[r] # NoKey

(***************************************************************************)
(* C6.  As claimed, for max_pages >= 0 (a negative max_pages gives the      *)
(* empty result, see C1): with stable fetch outcomes a crawl returns        *)
(* exactly min(max_pages, R) pages, R being the number of URLs that fetch   *)
(* successfully and are reachable from the start URL through same-domain    *)
(* links of successfully fetched pages; and a crawl that ends within its    *)
(* budget returns every such URL.                                           *)
(***************************************************************************)
\* the fetch of url succeeds (stable outcomes)
FetchesOk(url) == FetchableOf[url] /\ url \notin down

\* the links, accepted by the predicate same(link, start), of the pages among
\* from that the request fetched successfully
LinksFrom(r, from, same(_, _)) ==
    {link \in SiteUrls :
        \E i \in DOMAIN log[r] :
            /\ log[r][i].ok
            /\ log[r][i].url \in from
            /\ \E k \in DOMAIN log[r][i].hrefs :
                  link = UrlJoinOf[log[r][i].url, log[r][i].hrefs[k]]
            /\ same(link, startUrl[r])}

RECURSIVE ReachFrom(_, _, _, _)
ReachFrom(r, from, same(_, _), n) ==
    IF n = 0 THEN from
    ELSE ReachFrom(r, from \cup LinksFrom(r, from, same), same, n - 1)

\* the URLs reachable from the start URL
Reachable(r, same(_, _)) == ReachFrom(r, {startUrl[r]}, same, Cardinality(SiteUrls))

\* R
ReachableOk(r, same(_, _)) == {u \in Reachable(r, same) : FetchesOk(u)}

C6_Count(r, same(_, _)) ==
    (pc[r] = "done" /\ stable /\ maxPages[r] >= 0) =>
        /\ Len(pages[r]) = Min(maxPages[r], Cardinality(ReachableOk(r, same)))
        /\ Cardinality(visited[r]) < maxPages[r] =>
              ReachableOk(r, same) = {pages[r][i].url : i \in DOMAIN pages[r]}

C6_ExactCount == \A r \in Requests : C6_Count(r, SameDomain)

\* the links run_crawl takes for same-domain
SameDomainAsCoded(url, start) == LinkDomainOf[url] \in {"", LinkDomainOf[start]}

\* the count holds when same-domain is read the way run_crawl tests it
C6_ExactCountAsCoded == \A r \in Requests : C6_Count(r, SameDomainAsCoded)

(***************************************************************************)
(* run_crawl as a function of its arguments and of the answers of the       *)
(* fetcher: the call run alone, from line 166 to the return, or up to the   *)
(* fetch for which fetches holds no answer.                                 *)
(***************************************************************************)
RECURSIVE SoloLoop(_, _, _, _, _, _)
SoloLoop(base, mp, q, vis, pgs, fetches) ==
    IF ~(q # <<>> /\ Cardinality(vis) < mp)
    THEN [pages |-> pgs, returned |-> (fetches = <<>>), queue |-> q, visited |-> vis]
    ELSE IF Head(q) \in vis THEN SoloLoop(base, mp, Tail(q), vis, pgs, fetches)
    ELSE IF fetches = <<>> \/ Head(fetches).url # Head(q)
         THEN [pages |-> pgs, returned |-> FALSE, queue |-> q, visited |-> vis]
    ELSE IF ~Head(fetches).ok THEN SoloLoop(base, mp, Tail(q), vis, pgs, Tail(fetches))
    ELSE LET url == Head(q)
             html == [hrefs |-> Head(fetches).hrefs, text |-> Head(fetches).text]
             seen == vis \cup {url}
         IN  SoloLoop(base, mp,
                      Tail(q) \o SelectSeq(Links(url, html), LAMBDA l : Enqueued(l, base, seen)),
                      seen, Append(pgs, PageInfo(url, html)), Tail(fetches))

SoloCrawl(start_url, max_pages, fetches) ==
    SoloLoop(LinkDomainOf[start_url], max_pages, <<start_url>>, {}, <<>>, fetches)

(***************************************************************************)
(* C9.  Crawls do not interfere: whatever other requests do meanwhile, the  *)
(* pages a crawl holds, and the list it returns, are those the call gives   *)
(* when it runs alone and the fetcher answers it the same way.              *)
(***************************************************************************)
C9_NoInterference ==
    \A r \in Requests :
        InCrawl(r) =>
            LET solo == SoloCrawl(startUrl[r], maxPages[r], log[r])
            IN  /\ pages[r] = solo.pages
                /\ visited[r] = solo.visited
                /\ pc[r] = "done" => solo.returned

\* two crawls are under way at once, and have fetched different things
C9_Witness ==
    /\ pc["r1"] = "crawl" /\ pc["r2"] = "crawl"
    /\ Len(log["r1"]) >= 2 /\ Len(log["r2"]) >= 1
    /\ visited["r1"] # visited["r2"]
    /\ visited["r2"] # {}

(***************************************************************************)
(* C10.  score = clamp(3*positive_hits + 5*proof_hits - 4*negative_hits,    *)
(* 0, 100), within [0, 100], each hit count being the sum over the list's   *)
(* words of the non-overlapping occurrences of the word in the text.        *)
(***************************************************************************)
\* where w occurs in t
Occurrences(t, w) == {i \in 1..Len(t) : MatchAt(t, w, i)}

\* the greatest number of occurrences of w in t no two of which overlap
NonOverlapping(t, w) ==
    LET sizes == {Cardinality(P) :
                    P \in {Q \in SUBSET Occurrences(t, w) :
                              \A i, j \in Q : i < j => i + Len(w) <= j}}
    IN  CHOOSE n \in sizes : \A m \in sizes : m <= n

WordsOf(p) ==
    {p.positive[i] : i \in DOMAIN p.positive} \cup {p.negative[i] : i \in DOMAIN p.negative}
    \cup {p.proof[i] : i \in DOMAIN p.proof}

NonOverlappingOf ==
    [t \in ScoreTexts, w \in UNION {WordsOf(p) : p \in ScoreProfiles} |-> NonOverlapping(t, w)]

RECURSIVE HitsOf(_, _)
HitsOf(t, words) ==
    IF words = <<>> THEN 0 ELSE NonOverlappingOf[t, Head(words)] + HitsOf(t, Tail(words))

Clamp(x, lo, hi) == IF x < lo THEN lo ELSE IF x > hi THEN hi ELSE x

C10_ScoreClamped ==
    phase = "scored" =>
        LET pos == HitsOf(text, profile.positive)
            neg == HitsOf(text, profile.negative)
            proof == HitsOf(text, profile.proof)
        IN  /\ scored.positive_hits = pos
            /\ scored.negative_hits = neg
            /\ scored.proof_hits = proof
            /\ scored.score = Clamp(3 * pos + 5 * proof - 4 * neg, 0, 100)
            /\ scored.score >= 0 /\ scored.score <= 100
            /\ (text = "fixer fixer" /\ profile = PERSONAS["Fixer"]) => scored.positive_hits = 2

\* a text whose raw score is above 100 was scored 100
C10_Witness ==
    /\ phase = "scored"
    /\ scored.score = 100
    /\ 3 * scored.positive_hits + 5 * scored.proof_hits - 4 * scored.negative_hits > 100

\* a text whose raw score is below 0 was scored 0
C10_WitnessFloor ==
    /\ phase = "scored"
    /\ scored.score = 0
    /\ 3 * scored.positive_hits + 5 * scored.proof_hits - 4 * scored.negative_hits < 0

(***************************************************************************)
(* C11.  diagnose returns exactly the subsequence of overall_low,           *)
(* missing_proof, weak_language, conflicting_language selected by           *)
(* score < 50, proof_hits = 0, positive_hits < 2, negative_hits > 0, in     *)
(* that order and without duplicates.                                       *)
(***************************************************************************)
IssueOrder == <<"overall_low", "missing_proof", "weak_language", "conflicting_language">>

\* the places in IssueOrder of the issues whose condition holds
IssuesSelected(c) ==
    {k \in 1..4 : \/ k = 1 /\ c.score < 50
                  \/ k = 2 /\ c.proof = 0
                  \/ k = 3 /\ c.pos < 2
                  \/ k = 4 /\ c.neg > 0}

Returned(fn) == phase = "returned" /\ call.fn = fn

C11_DiagnoseExact ==
    Returned("diagnose") =>
        /\ Len(ret) = Cardinality(IssuesSelected(call))
        /\ \A k \in 1..4 : k \in IssuesSelected(call) <=> \E i \in DOMAIN ret : ret[i] = IssueOrder[k]
        /\ \A i, j \in DOMAIN ret :
              i < j => \E k, l \in 1..4 : k < l /\ ret[i] = IssueOrder[k] /\ ret[j] = IssueOrder[l]

\* score 30, proof 0, positive 0, negative 1 gave the four issues, in order
C11_Witness ==
    /\ Returned("diagnose")
    /\ call = [fn |-> "diagnose", score |-> 30, pos |-> 0, neg |-> 1, proof |-> 0]
    /\ ret = IssueOrder

(***************************************************************************)
(* C12.  The suggestion list holds RecommendationTable[persona][issue] for  *)
(* exactly the issues that have an entry, in the order of the issue list;   *)
(* a persona without a table and an issue without an entry contribute       *)
(* nothing, so len(suggestions) <= len(issues).                             *)
(***************************************************************************)
\* the places of the issue list whose issue has an entry for the persona
Matched(pname, issues) ==
    {i \in DOMAIN issues :
        pname \in DOMAIN RECOMMENDATIONS /\ issues[i] \in DOMAIN RECOMMENDATIONS[pname]}

\* the k-th smallest member of a set of numbers
Kth(S, k) == CHOOSE i \in S : Cardinality({j \in S : j <= i}) = k

C12_SuggestionsMatch ==
    Returned("suggestions") =>
        LET at == Matched(call.pname, call.issues)
        IN  /\ Len(ret) = Cardinality(at)
            /\ \A k \in DOMAIN ret :
                  ret[k] = RECOMMENDATIONS[call.pname][call.issues[Kth(at, k)]]
            /\ Len(ret) <= Len(call.issues)

\* a persona whose table lacks one of the issues given: a shorter, ordered list
C12_Witness ==
    /\ Returned("suggestions")
    /\ call.pname = "Explorer"
    /\ call.issues = <<"weak_language", "conflicting_language", "overall_low">>
    /\ ret = <<RECOMMENDATIONS["Explorer"]["weak_language"],
               RECOMMENDATIONS["Explorer"]["overall_low"]>>

\* a persona without a table gets no suggestion
C12_WitnessNoTable ==
    /\ Returned("suggestions")
    /\ call.pname = "Nobody" /\ call.issues # <<>>
    /\ ret = <<>>

(***************************************************************************)
(* C13.  detect_page_type: a URL that ends with / or has at most 3 /        *)
(* characters is Homepage / Landing whatever keyword it contains; failing   *)
(* that, one containing product is Product Page whatever else it contains;  *)
(* failing that, one containing collection or category is Collection Page;  *)
(* failing that, Other.                                                     *)
(***************************************************************************)
Contains(s, w) == \E i \in 1..Len(s) : MatchAt(s, w, i)

Slashes(s) == Cardinality({i \in 1..Len(s) : SubSeq(s, i, i) = "/"})

LooksLikeHome(url) ==
    \/ Len(url) > 0 /\ SubSeq(url, Len(url), Len(url)) = "/"
    \/ Slashes(url) <= 3

C13_FirstMatchWins ==
    Returned("detect_page_type") =>
        LET url == call.url
            home == LooksLikeHome(url)
            product == Contains(url, "product")
            listing == Contains(url, "collection") \/ Contains(url, "category")
        IN  /\ home => ret = "Homepage / Landing"
            /\ ~home /\ product => ret = "Product Page"
            /\ ~home /\ ~product /\ listing => ret = "Collection Page"
            /\ ~home /\ ~product /\ ~listing => ret = "Other"
            /\ url = "https://shop.example.com/" => ret = "Homepage / Landing"
            /\ url = "https://shop.example.com/products/widget" => ret = "Product Page"
            /\ url = "https://shop.example.com/about/team/history" => ret = "Other"

\* a URL with more than 3 slashes that ends with / and contains product is a homepage
C13_Witness ==
    /\ Returned("detect_page_type")
    /\ call.url = "https://shop.example.com/x/products/"
    /\ ret = "Homepage / Landing"

\* a URL that contains product and collection, and is no homepage, is a product page
C13_WitnessProduct ==
    /\ Returned("detect_page_type")
    /\ call.url = "https://shop.example.com/collection/product/y"
    /\ ret = "Product Page"

(***************************************************************************)
(* C14.  clean_text is idempotent on its own output: for every document d,  *)
(* clean_text(clean_text(d)) = clean_text(d).                               *)
(***************************************************************************)
C14_Idempotent == Returned("clean_text") => clean_text(ret) = ret

(***************************************************************************)
(* C15.  In every configured persona the word lists positive, negative and  *)
(* proof are pairwise disjoint.                                             *)
(***************************************************************************)
Configured == {PERSONAS[pname] : pname \in DOMAIN PERSONAS}

WordSet(words) == {words[i] : i \in DOMAIN words}

C15_ListsDisjoint ==
    phase = "scored" /\ profile \in Configured =>
        /\ WordSet(profile.positive) \cap WordSet(profile.negative) = {}
        /\ WordSet(profile.positive) \cap WordSet(profile.proof) = {}
        /\ WordSet(profile.negative) \cap WordSet(profile.proof) = {}

\* as amended: the negative list is disjoint from the other two; positive and proof
\* share words, and an occurrence of a shared word counts in both hit counts
C15_NegativeDisjoint ==
    phase = "scored" /\ profile \in Configured =>
        /\ WordSet(profile.negative) \cap WordSet(profile.positive) = {}
        /\ WordSet(profile.negative) \cap WordSet(profile.proof) = {}
        /\ WordSet(profile.positive) \cap WordSet(profile.proof) # {}
        /\ \A w \in WordSet(profile.positive) \cap WordSet(profile.proof) :
              Contains(text, w) => scored.positive_hits >= 1 /\ scored.proof_hits >= 1

\* reviews and refund are positive and proof words of Skeptic: each counted twice
C15_Witness ==
    /\ phase = "scored"
    /\ profile = PERSONAS["Skeptic"]
    /\ text = "reviews refund"
    /\ scored.positive_hits = 2 /\ scored.proof_hits = 2

(***************************************************************************)
(* C16.  After a successful fetch every same-domain link discovered on the  *)
(* page is appended to the frontier, links whose URL is in the visited set  *)
(* included.                                                                *)
(***************************************************************************)
\* the step is a successful fetch of the request
OkStep(r) ==
    /\ Len(log'[r]) = Len(log[r]) + 1
    /\ log'[r][Len(log'[r])].ok

\* the links of the page fetched by the step, in document order
Discovered(r) ==
    LET e == log'[r][Len(log'[r])]
    IN  [k \in DOMAIN e.hrefs |-> UrlJoinOf[e.url, e.hrefs[k]]]

\* what the step appended to the queue
Appended(r) == SubSeq(queue'[r], Len(queue[r]), Len(queue'[r]))

Times(seq, x) == Cardinality({k \in DOMAIN seq : seq[k] = x})

OutcomeOf(r, url) ==
    LET at == {i \in DOMAIN log[r] : log[r][i].url = url}
    IN  IF at = {} THEN [known |-> FALSE]
        ELSE LET e == log[r][Kth(at, 1)]
             IN  [known |-> TRUE, ok |-> e.ok, hrefs |-> e.hrefs, text |-> e.text]

\* the members of links that are not in seen, each at its first occurrence only
RECURSIVE FirstDiscoveries(_, _)
FirstDiscoveries(links, seen) ==
    IF links = <<>> THEN <<>>
    ELSE IF Head(links) \in seen THEN FirstDiscoveries(Tail(links), seen)
    ELSE <<Head(links)>> \o FirstDiscoveries(Tail(links), seen \cup {Head(links)})

\* the crawl of the request's site with one of the two frontiers; seen holds the
\* URLs discovered so far and is used by the eager frontier only
RECURSIVE VariantLoop(_, _, _, _, _, _)
VariantLoop(r, eager, q, vis, seen, pgs) ==
    IF q = <<>> \/ Cardinality(vis) >= maxPages[r] THEN [known |-> TRUE, pages |-> pgs]
    ELSE IF Head(q) \in vis THEN VariantLoop(r, eager, Tail(q), vis, seen, pgs)
    ELSE LET url == Head(q)
             got == OutcomeOf(r, url)
         IN  IF ~got.known THEN [known |-> FALSE, pages |-> pgs]
             ELSE IF ~got.ok THEN VariantLoop(r, eager, Tail(q), vis, seen, pgs)
             ELSE LET html == [hrefs |-> got.hrefs, text |-> got.text]
                      same == SelectSeq(Links(url, html),
                                        LAMBDA l : SameDomainAsCoded(l, startUrl[r]))
                      new == IF eager THEN FirstDiscoveries(same, seen) ELSE same
                  IN  VariantLoop(r, eager, Tail(q) \o new, vis \cup {url},
                                  seen \cup {same[k] : k \in DOMAIN same},
                                  Append(pgs, PageInfo(url, html)))

VariantCrawl(r, eager) == VariantLoop(r, eager, <<startUrl[r]>>, {}, {startUrl[r]}, <<>>)

C17_LazyEqualsEager ==
    \A r \in Requests :
        pc[r] = "done" /\ stable =>
            LET lazy == VariantCrawl(r, FALSE)
                eager == VariantCrawl(r, TRUE)
            IN  /\ lazy.known /\ eager.known
                /\ lazy.pages = eager.pages
                /\ pages[r] = lazy.pages

\* the start page carries the same link twice: the second copy was dequeued and
\* skipped, and a page it led to was fetched after it
C17_Witness ==
    /\ pc["r1"] = "done" /\ stable
    /\ Len(log["r1"]) = 3
    /\ log["r1"][1].hrefs = <<"//ab.io/", "//ab.io/">>
    /\ log["r1"][2].ok /\ log["r1"][3].ok
    /\ Len(pages["r1"]) = 3

\* a URL whose fetch fails was fetched twice; the crawl went on to another page
C17_WitnessRefetched ==
    /\ pc["r1"] = "done" /\ stable
    /\ \E i, j \in DOMAIN log["r1"] :
          i < j /\ log["r1"][i].url = log["r1"][j].url /\ ~log["r1"][i].ok
    /\ Len(pages["r1"]) >= 2

(***************************************************************************)
(* C18.  The traversal is breadth-first: the pages of the returned list     *)
(* appear in non-decreasing link distance from the start URL, measured      *)
(* through the same-domain links of the pages fetched successfully.         *)
(***************************************************************************)
\* the link distances from the start URL, level by level: from holds the URLs at
\* distance n, seen those at distance n or less
RECURSIVE Distances(_, _, _, _)
Distances(r, from, seen, n) ==
    IF from = {} THEN <<>>
    ELSE LET next == LinksFrom(r, from, SameDomain) \ seen
         IN  [u \in from |-> n] @@ Distances(r, next, seen \cup next, n + 1)

\* the distance of the URL by the table d; beyond every distance when no chain of
\* same-domain links leads to it
DistanceIn(d, url) == IF url \in DOMAIN d THEN d[url] ELSE Cardinality(SiteUrls) + 1

C18_BreadthFirst ==
    \A r \in Requests :
        pc[r] = "done" =>
            LET d == Distances(r, {startUrl[r]}, {startUrl[r]}, 0)
            IN  \A i, j \in DOMAIN pages[r] :
                    i < j => DistanceIn(d, pages[r][i].url) <= DistanceIn(d, pages[r][j].url)

(***************************************************************************)
(* C19.  With the configured tables every issue diagnosed for a persona has *)
(* a suggestion: len(suggestions) = len(issues) for every page text and     *)
(* persona; Explorer and DealMax, whose tables lack conflicting_language,   *)
(* never receive that issue.                                                *)
(***************************************************************************)
C19_SuggestionPerIssue ==
    Returned("persona_result") =>
        /\ Len(ret.suggestions) = Len(ret.issues)
        /\ \A i \in DOMAIN ret.issues :
              ret.suggestions[i] = RECOMMENDATIONS[call.pname][ret.issues[i]]
        /\ call.pname \in {"Explorer", "DealMax"} =>
              \A i \in DOMAIN ret.issues : ret.issues[i] # "conflicting_language"

\* a text with a negative word of Fixer: four issues, four suggestions
C19_Witness ==
    /\ Returned("persona_result")
    /\ call.pname = "Fixer" /\ call.text = "maybe"
    /\ ret.issues = IssueOrder
    /\ Len(ret.suggestions) = 4

\* the same text for Explorer: no conflicting_language, three suggestions
C19_WitnessExplorer ==
    /\ Returned("persona_result")
    /\ call.pname = "Explorer" /\ call.text = "maybe"
    /\ ret.issues = <<"overall_low", "missing_proof", "weak_language">>
    /\ Len(ret.suggestions) = 3

====
